---- MODULE Spec2Model ----
(***************************************************************************)
(* UrbanPulse+ (React Native): the root component App and its tabs, the    *)
(* Login screen, the Home screen with its simulated search, the MapSection *)
(* with its routing request, the Settings screen and the Travel News       *)
(* screen.                                                                 *)
(*                                                                         *)
(* Time is a digital clock of 500 ms steps, the greatest common divisor of *)
(* the delays the code passes to setTimeout and setInterval (1000, 1500,   *)
(* 2000 ms).  A pending timer holds the number of steps left before it is   *)
(* due; Advance lets one step pass and is possible only when no timer is   *)
(* due, so a due timer fires before time moves on.  User events happen at  *)
(* any moment.  A handler and the render (and effects) that follow it are  *)
(* one action: React 18 batches the state updates of one callback.         *)
(***************************************************************************)
EXTENDS Integers, Sequences, FiniteSets, TLC

VARIABLES
    \* App (part_000)
    isLoggedIn,      \* useState(false)
    rootScreens,     \* the Stack.Screen elements the last render of App mounted
    \* LoginScreen (part_003)
    email,           \* useState('')
    password,        \* useState('')
    isLoading,       \* useState(false)
    loginTimers,     \* pending setTimeout callbacks of the two login handlers
    alert,           \* the dialog last shown by Alert.alert, "none" once dismissed
    onLoginCalls,    \* how many times the onLogin prop was invoked
    loginVia,        \* which handler's callback invoked onLogin last
    \* HomeScreen (part_003)
    searchQuery,     \* useState(''), a sequence of characters
    isSearching,     \* useState(false)
    progressMessage, \* useState('')
    showResults,     \* useState(false)
    isListening,     \* useState(false)
    searches,        \* the running searches: each one's messageIndex and its timer
    voiceTimers,     \* pending setTimeout callbacks of handleVoiceInput
    searchesStarted, \* how many searches were started
    homeViews,       \* what the last render of HomeScreen put on display
    \* MapSection (part_003)
    routeCoordinates,\* useState([])
    mapHTML,         \* useState('')
    inflight,        \* the routing requests issued and not yet settled
    requestsIssued,  \* how many routing requests were issued
    mapRequest,      \* the request whose settlement set mapHTML last, 0 if none
    errorLog,        \* how many times console.error was called
    \* Tab.Navigator (part_000)
    focusedTab,      \* the tab on display, "none" while Main is not mounted
    \* SettingsScreen (SettingsScreen.js)
    settings,        \* useState({highSafetyMode: true, ...})
    \* TravelNewsScreen (TravelNewsScreen.js)
    refreshing,      \* useState(false)
    selectedCategory,\* useState('all')
    newsData,        \* the array of articles the component body builds
    refreshTimers,   \* pending setTimeout callbacks of onRefresh
    refreshesStarted,\* how many times onRefresh was called
    newsCards,       \* the cards the last render of TravelNewsScreen put on display
    bookmarkLogged,  \* the article id console.log printed last, 0 if none
    \* A call of generateMapHTML on its own
    callArg,         \* the argument routeCoords of the call
    callResult,      \* what the call returned, <<>> before the call
    \* The puzzle solver (part_001)
    testCase,        \* the two arrays a and b of the test case read from cin
    printed          \* what the test case wrote to cout, <<>> before it ran

appVars   == <<isLoggedIn, rootScreens>>
loginVars == <<email, password, isLoading, loginTimers, alert, onLoginCalls, loginVia>>
homeVars  == <<searchQuery, isSearching, progressMessage, showResults, isListening,
               searches, voiceTimers, searchesStarted, homeViews>>
mapVars   == <<routeCoordinates, mapHTML, inflight, requestsIssued, mapRequest, errorLog>>
tabVars      == <<focusedTab>>
settingsVars == <<settings>>
newsVars  == <<refreshing, selectedCategory, newsData, refreshTimers, refreshesStarted,
               newsCards, bookmarkLogged>>
callVars  == <<callArg, callResult>>
solverVars == <<testCase, printed>>
\* What the Login, Home and Map code never touches.
sideVars  == <<tabVars, settingsVars, newsVars, callVars, solverVars>>
vars      == <<appVars, loginVars, homeVars, mapVars, sideVars>>

----------------------------------------------------------------------------
(* Time *)

\* A delay in milliseconds as a number of clock steps.
Steps(ms) == ms \div 500

RECURSIVE SeqAll(_, _)
\* TRUE iff every timer of the sequence still has time left.
SeqAll(s, i) ==
    IF i > Len(s) THEN TRUE ELSE s[i].left > 0 /\ SeqAll(s, i + 1)

\* Every timer of the sequence one step closer to its deadline.
Elapse(s) == [i \in 1..Len(s) |-> [s[i] EXCEPT !.left = @ - 1]]

\* The sequence without its i-th element.
RemoveAt(s, i) == SubSeq(s, 1, i - 1) \o SubSeq(s, i + 1, Len(s))

----------------------------------------------------------------------------
(* App *)

\* The four Tab.Screen elements of MainTabs.
MainTabs == {"Home", "Profile", "Settings", "News"}

\* Mutant of AppRender: the Login screen is never unmounted.
AppRender_KeepsLogin(flag) == IF ~flag THEN {"Login"} ELSE {"Login", "Main"}

\* The conditional of App's render: which Stack.Screen is mounted.
AppRender(flag) == IF ~flag THEN {"Login"} ELSE {"Main"}

\* The tab screens on display.
Tabs == IF "Main" \in rootScreens THEN MainTabs ELSE {}

----------------------------------------------------------------------------
(* Strings of the search field, as sequences of characters *)

\* The characters String.prototype.trim removes.
WhiteSpace == {" ", "\t", "\n"}

RECURSIVE TrimStart(_)
TrimStart(s) ==
    IF s # <<>> /\ Head(s) \in WhiteSpace THEN TrimStart(Tail(s)) ELSE s

RECURSIVE TrimEnd(_)
TrimEnd(s) ==
    IF s # <<>> /\ s[Len(s)] \in WhiteSpace
    THEN TrimEnd(SubSeq(s, 1, Len(s) - 1))
    ELSE s

\* searchQuery.trim()
Trim(s) == TrimEnd(TrimStart(s))

\* 'I want to go from Delhi to Mandi having greenery'
VoicePhrase ==
    <<"I", " ", "w", "a", "n", "t", " ", "t", "o", " ", "g", "o", " ", "f",
      "r", "o", "m", " ", "D", "e", "l", "h", "i", " ", "t", "o", " ", "M",
      "a", "n", "d", "i", " ", "h", "a", "v", "i", "n", "g", " ", "g", "r",
      "e", "e", "n", "e", "r", "y">>

\* What the user may type into the search field.
TypedQueries == {<<>>, <<" ", "\t">>, <<" ", "M", "\n">>}

----------------------------------------------------------------------------
(* MapSection: values and pure functions *)

\* Coordinates in units of 0.0001 degree.
Delhi == [latitude |-> 286139, longitude |-> 772090]
Mandi == [latitude |-> 317333, longitude |-> 769333]

\* The JavaScript values response.data.routes[0].geometry.coordinates may hold:
\* an array of [longitude, latitude] pairs, or undefined when the key is absent.
Array(items) == [tag |-> "array", items |-> items]
Undefined    == [tag |-> "undefined", items |-> <<>>]

\* The geometries the routing service may answer with.
RouteA == << <<772090, 286139>>, <<769333, 317333>> >>
RouteChoices == {<<>>, RouteA}

\* How a routing request may settle: axios.get rejects; the body has no
\* routes[0].geometry; the geometry has no coordinates key; or it has one.
Responses ==
    {[kind |-> "networkError", coordinates |-> Undefined],
     [kind |-> "noGeometry", coordinates |-> Undefined],
     [kind |-> "geometry", coordinates |-> Undefined]}
    \cup {[kind |-> "geometry", coordinates |-> Array(c)] : c \in RouteChoices}

\* The empty string, the initial mapHTML.
EmptyString ==
    [delhiMarker |-> <<>>, mandiMarker |-> <<>>, polyline |-> <<>>, fitBounds |-> FALSE]

\* Mutant of SwapPairs: the pairs are swapped and the list is reversed.
SwapPairs_Reversed(items) ==
    [i \in 1..Len(items) |->
        <<items[Len(items) + 1 - i][2], items[Len(items) + 1 - i][1]>>]

\* routeCoords.map(c => [c[1], c[0]])
SwapPairs(items) == [i \in 1..Len(items) |-> <<items[i][2], items[i][1]>>]

\* generateMapHTML(routeCoords) for an array: the document's two markers, the
\* polyline's points (none when the polyline statement is left out) and whether
\* the fitBounds statement is present.
generateMapHTML(routeCoords) ==
    [delhiMarker |-> <<Delhi.latitude, Delhi.longitude>>,
     mandiMarker |-> <<Mandi.latitude, Mandi.longitude>>,
     polyline    |-> IF Len(routeCoords.items) > 0
                     THEN SwapPairs(routeCoords.items)
                     ELSE <<>>,
     fitBounds   |-> Len(routeCoords.items) > 0]

\* Reading routeCoords.length of undefined throws a TypeError.
generateMapHTMLThrows(routeCoords) == routeCoords.tag = "undefined"

\* fetchRoute from the moment the request settles with resp: whether
\* setRouteCoordinates was called and with what, the argument of setMapHTML, and
\* whether the catch block logged.
fetchRoute(resp) ==
    IF resp.kind # "geometry"
    THEN [setCoordinates |-> FALSE, coordinates |-> Undefined,
          html |-> generateMapHTML(Array(<<>>)), logged |-> TRUE]
    ELSE IF generateMapHTMLThrows(resp.coordinates)
    THEN [setCoordinates |-> TRUE, coordinates |-> resp.coordinates,
          html |-> generateMapHTML(Array(<<>>)), logged |-> TRUE]
    ELSE [setCoordinates |-> TRUE, coordinates |-> resp.coordinates,
          html |-> generateMapHTML(resp.coordinates), logged |-> FALSE]

\* The render of MapSection.
MapSectionRender(show, html) ==
    IF ~show THEN {}
    ELSE IF html # EmptyString THEN {"MapWebView"} ELSE {"MapPlaceholder"}

----------------------------------------------------------------------------
(* HomeScreen: render *)

progressMessages ==
    <<"Fetching data...",
      "Understanding context...",
      "Analyzing traffic patterns...",
      "Optimizing route...",
      "Calculating environmental factors...",
      "Finalizing recommendations...">>

\* The titles of the cards of renderInfoCards.
InfoCards == {"Air Quality Index", "Noise Level", "Greenery Index", "Travel Time"}

renderProgressOverlay(searching) == IF ~searching THEN {} ELSE {"ProgressOverlay"}

renderInfoCards(show) == IF ~show THEN {} ELSE InfoCards

renderTravelNews == {"Travel Updates"}

\* Mutant of HomeScreenRender: the 'Travel Updates' list is rendered always.
HomeScreenRender_AlwaysNews(searching, show, html) ==
    MapSectionRender(show, html)
    \cup renderInfoCards(show)
    \cup renderTravelNews
    \cup renderProgressOverlay(searching)

\* What HomeScreen's render puts on display.
HomeScreenRender(searching, show, html) ==
    MapSectionRender(show, html)
    \cup renderInfoCards(show)
    \cup (IF ~show THEN renderTravelNews ELSE {})
    \cup renderProgressOverlay(searching)

----------------------------------------------------------------------------
(* LoginScreen *)

DemoEmail    == "testuser@example.com"
DemoPassword == "Test@1234"

\* What the user may type into the two fields.
Emails    == {"", DemoEmail, "TestUser@example.com", " testuser@example.com"}
Passwords == {"", DemoPassword, "test@1234", "Test@1234 "}

EmailLoginDelay  == 1000
GoogleLoginDelay == 1500

LoginMounted == "Login" \in rootScreens

\* onChangeText={setEmail}
setEmail ==
    /\ LoginMounted
    /\ \E e \in Emails : email' = e
    /\ UNCHANGED <<appVars, sideVars, homeVars, mapVars, password, isLoading, loginTimers, alert,
                   onLoginCalls, loginVia>>

\* onChangeText={setPassword}
setPassword ==
    /\ LoginMounted
    /\ \E p \in Passwords : password' = p
    /\ UNCHANGED <<appVars, sideVars, homeVars, mapVars, email, isLoading, loginTimers, alert,
                   onLoginCalls, loginVia>>

\* Mutant of CredentialsMatch: the email is compared ignoring case.
CredentialsMatch_IgnoreCase ==
    email \in {DemoEmail, "TestUser@example.com"} /\ password = DemoPassword

\* Mutant of CredentialsMatch: both fields are trimmed before the comparison.
CredentialsMatch_Trimmed ==
    /\ email \in {DemoEmail, " testuser@example.com"}
    /\ password \in {DemoPassword, "Test@1234 "}

\* The test of handleEmailLogin.
CredentialsMatch == email = DemoEmail /\ password = DemoPassword

\* Mutant of handleEmailLogin: the success branch forgets setTimeout.
handleEmailLogin_NoTimer ==
    IF email = DemoEmail /\ password = DemoPassword
    THEN /\ isLoading' = TRUE
         /\ UNCHANGED <<appVars, sideVars, homeVars, mapVars, email, password, loginTimers, alert,
                        onLoginCalls, loginVia>>
    ELSE /\ alert' = "InvalidCredentials"
         /\ UNCHANGED <<appVars, sideVars, homeVars, mapVars, email, password, isLoading,
                        loginTimers, onLoginCalls, loginVia>>

\* The body of handleEmailLogin.
handleEmailLogin ==
    IF CredentialsMatch
    THEN /\ isLoading' = TRUE
         /\ loginTimers' = Append(loginTimers,
                                  [via |-> "email", left |-> Steps(EmailLoginDelay)])
         /\ UNCHANGED <<appVars, sideVars, homeVars, mapVars, email, password, alert,
                        onLoginCalls, loginVia>>
    ELSE /\ alert' = "InvalidCredentials"
         /\ UNCHANGED <<appVars, sideVars, homeVars, mapVars, email, password, isLoading,
                        loginTimers, onLoginCalls, loginVia>>

\* The body of handleGoogleLogin.
handleGoogleLogin ==
    /\ isLoading' = TRUE
    /\ loginTimers' = Append(loginTimers,
                             [via |-> "google", left |-> Steps(GoogleLoginDelay)])
    /\ UNCHANGED <<appVars, sideVars, homeVars, mapVars, email, password, alert, onLoginCalls,
                   loginVia>>

\* The Sign In button: onPress={handleEmailLogin} disabled={isLoading}.
PressSignIn == LoginMounted /\ ~isLoading /\ handleEmailLogin

\* Mutant of PressGoogle: the button is not disabled while loading.
PressGoogle_NotDisabled == LoginMounted /\ Len(loginTimers) < 2 /\ handleGoogleLogin

\* The Google button: onPress={handleGoogleLogin} disabled={isLoading}.
PressGoogle == LoginMounted /\ ~isLoading /\ handleGoogleLogin

\* The user closes the dialog.  The model does not make the dialog modal: the
\* other events stay possible while it is open, which only adds behaviours.
DismissAlert ==
    /\ alert # "none"
    /\ alert' = "none"
    /\ UNCHANGED <<appVars, sideVars, homeVars, mapVars, email, password, isLoading, loginTimers,
                   onLoginCalls, loginVia>>

\* onLogin={() => setIsLoggedIn(true)} and the render of App that follows:
\* the Login screen is unmounted and its state discarded.
onLogin ==
    /\ isLoggedIn' = TRUE
    /\ rootScreens' = AppRender(isLoggedIn')
    /\ onLoginCalls' = onLoginCalls + 1
    /\ email' = ""
    /\ password' = ""

\* The callback both login handlers pass to setTimeout.
loginTimerFires(i) ==
    /\ loginTimers[i].left = 0
    /\ isLoading' = FALSE
    /\ loginVia' = loginTimers[i].via
    /\ loginTimers' = RemoveAt(loginTimers, i)
    /\ onLogin
    /\ homeViews' = HomeScreenRender(isSearching, showResults, mapHTML)
    /\ focusedTab' = "Home"
    /\ UNCHANGED <<alert, searchQuery, isSearching, progressMessage, showResults,
                   isListening, searches, voiceTimers, searchesStarted, mapVars,
                   settingsVars, newsVars, callVars, solverVars>>

LoginTimeout == \E i \in 1..Len(loginTimers) : loginTimerFires(i)

----------------------------------------------------------------------------
(* HomeScreen: handlers and timers *)

\* How many searches the user starts at most.
MaxSearches == 2

ProgressInterval == 1500
CompletionDelay  == 1000
VoiceDelay       == 2000

HomeMounted == "Home" \in Tabs

\* The Home tab is the one on display: only then do its controls get events.
HomeFocused == HomeMounted /\ focusedTab = "Home"

\* onChangeText={setSearchQuery}
setSearchQuery ==
    /\ HomeFocused
    /\ \E q \in TypedQueries : searchQuery' = q
    /\ UNCHANGED <<appVars, sideVars, loginVars, mapVars, isSearching, progressMessage, showResults,
                   isListening, searches, voiceTimers, searchesStarted, homeViews>>

\* Mutant of useEffectShowResults: no request while another one is pending.
useEffectShowResults_Dedup ==
    IF showResults' # showResults /\ showResults' /\ inflight = {}
    THEN /\ requestsIssued' = requestsIssued + 1
         /\ inflight' = inflight \cup {requestsIssued + 1}
    ELSE UNCHANGED <<inflight, requestsIssued>>

\* The effect of MapSection, run after a render in which showResults changed:
\* it returns at once unless showResults is true, and else calls fetchRoute,
\* which issues the request.
useEffectShowResults ==
    IF showResults' # showResults /\ showResults'
    THEN /\ requestsIssued' = requestsIssued + 1
         /\ inflight' = inflight \cup {requestsIssued + 1}
    ELSE UNCHANGED <<inflight, requestsIssued>>

\* Mutant of handleSearch: the query is tested without trim().
handleSearch_NoTrim ==
    IF searchQuery # <<>>
    THEN /\ isSearching' = TRUE
         /\ showResults' = FALSE
         /\ searches' = Append(searches, [messageIndex |-> 0, phase |-> "interval",
                                          left |-> Steps(ProgressInterval)])
         /\ searchesStarted' = searchesStarted + 1
         /\ homeViews' = HomeScreenRender(isSearching', showResults', mapHTML)
         /\ useEffectShowResults
         /\ UNCHANGED <<appVars, sideVars, loginVars, searchQuery, progressMessage,
                        isListening, voiceTimers, routeCoordinates, mapHTML, mapRequest,
                        errorLog>>
    ELSE UNCHANGED vars

\* Mutant of handleSearch: setShowResults(false) is forgotten.
handleSearch_KeepsResults ==
    IF Trim(searchQuery) # <<>>
    THEN /\ isSearching' = TRUE
         /\ searches' = Append(searches, [messageIndex |-> 0, phase |-> "interval",
                                          left |-> Steps(ProgressInterval)])
         /\ searchesStarted' = searchesStarted + 1
         /\ homeViews' = HomeScreenRender(isSearching', showResults, mapHTML)
         /\ UNCHANGED <<appVars, sideVars, loginVars, searchQuery, progressMessage,
                        isListening, voiceTimers, showResults, mapVars>>
    ELSE UNCHANGED vars

\* The body of handleSearch.
handleSearch ==
    IF Trim(searchQuery) # <<>>
    THEN /\ isSearching' = TRUE
         /\ showResults' = FALSE
         /\ searches' = Append(searches, [messageIndex |-> 0, phase |-> "interval",
                                          left |-> Steps(ProgressInterval)])
         /\ searchesStarted' = searchesStarted + 1
         /\ homeViews' = HomeScreenRender(isSearching', showResults', mapHTML)
         /\ useEffectShowResults
         /\ UNCHANGED <<appVars, sideVars, loginVars, searchQuery, progressMessage, isListening,
                        voiceTimers, routeCoordinates, mapHTML, mapRequest, errorLog>>
    ELSE UNCHANGED vars

\* The model's bound on the number of searches.
MaySearch == Trim(searchQuery) # <<>> => searchesStarted < MaxSearches

\* The Search button: onPress={handleSearch} disabled={isSearching}.
PressSearch == HomeFocused /\ ~isSearching /\ MaySearch /\ handleSearch

\* The text field: onSubmitEditing={handleSearch}.
SubmitEditing == HomeFocused /\ MaySearch /\ handleSearch

\* Mutant of progressTick: the completion is scheduled with no delay.
progressTick_NoDelay(i) ==
    /\ searches[i].phase = "interval"
    /\ searches[i].left = 0
    /\ LET messageIndex == searches[i].messageIndex IN
       /\ progressMessage' = progressMessages[messageIndex + 1]
       /\ searches' =
            [searches EXCEPT ![i] =
                IF messageIndex + 1 >= Len(progressMessages)
                THEN [messageIndex |-> messageIndex + 1, phase |-> "timeout",
                      left |-> 0]
                ELSE [messageIndex |-> messageIndex + 1, phase |-> "interval",
                      left |-> Steps(ProgressInterval)]]
    /\ UNCHANGED <<appVars, sideVars, loginVars, mapVars, searchQuery, isSearching, showResults,
                   isListening, voiceTimers, searchesStarted, homeViews>>

\* The callback of setInterval in handleSearch, for the i-th running search.
progressTick(i) ==
    /\ searches[i].phase = "interval"
    /\ searches[i].left = 0
    /\ LET messageIndex == searches[i].messageIndex IN
       /\ progressMessage' = progressMessages[messageIndex + 1]
       /\ searches' =
            [searches EXCEPT ![i] =
                IF messageIndex + 1 >= Len(progressMessages)
                THEN [messageIndex |-> messageIndex + 1, phase |-> "timeout",
                      left |-> Steps(CompletionDelay)]
                ELSE [messageIndex |-> messageIndex + 1, phase |-> "interval",
                      left |-> Steps(ProgressInterval)]]
    /\ UNCHANGED <<appVars, sideVars, loginVars, mapVars, searchQuery, isSearching, showResults,
                   isListening, voiceTimers, searchesStarted, homeViews>>

ProgressTick == \E i \in 1..Len(searches) : progressTick(i)

\* Mutant of searchCompletes: setIsSearching(false) is forgotten.
searchCompletes_KeepsSearching(i) ==
    /\ searches[i].phase = "timeout"
    /\ searches[i].left = 0
    /\ showResults' = TRUE
    /\ searches' = RemoveAt(searches, i)
    /\ homeViews' = HomeScreenRender(isSearching, showResults', mapHTML)
    /\ useEffectShowResults
    /\ UNCHANGED <<appVars, sideVars, loginVars, searchQuery, isSearching, progressMessage,
                   isListening, voiceTimers, searchesStarted, routeCoordinates, mapHTML,
                   mapRequest, errorLog>>

\* Mutant of searchCompletes: the reveal puts the map without a route on
\* display at once, before any request settles.
searchCompletes_MapAtOnce(i) ==
    /\ searches[i].phase = "timeout"
    /\ searches[i].left = 0
    /\ isSearching' = FALSE
    /\ showResults' = TRUE
    /\ searches' = RemoveAt(searches, i)
    /\ mapHTML' = generateMapHTML(Array(<<>>))
    /\ homeViews' = HomeScreenRender(isSearching', showResults', mapHTML')
    /\ useEffectShowResults
    /\ UNCHANGED <<appVars, sideVars, loginVars, searchQuery, progressMessage, isListening,
                   voiceTimers, searchesStarted, routeCoordinates, mapRequest, errorLog>>

\* The callback of setTimeout in handleSearch, for the i-th running search.
searchCompletes(i) ==
    /\ searches[i].phase = "timeout"
    /\ searches[i].left = 0
    /\ isSearching' = FALSE
    /\ showResults' = TRUE
    /\ searches' = RemoveAt(searches, i)
    /\ homeViews' = HomeScreenRender(isSearching', showResults', mapHTML)
    /\ useEffectShowResults
    /\ UNCHANGED <<appVars, sideVars, loginVars, searchQuery, progressMessage, isListening,
                   voiceTimers, searchesStarted, routeCoordinates, mapHTML, mapRequest,
                   errorLog>>

SearchCompletes == \E i \in 1..Len(searches) : searchCompletes(i)

\* The body of handleVoiceInput.
handleVoiceInput ==
    /\ isListening' = TRUE
    /\ voiceTimers' = Append(voiceTimers, [left |-> Steps(VoiceDelay)])
    /\ UNCHANGED <<appVars, sideVars, loginVars, mapVars, searchQuery, isSearching, progressMessage,
                   showResults, searches, searchesStarted, homeViews>>

\* Mutant of PressVoice: the button is not disabled while listening.
PressVoice_NotDisabled == HomeFocused /\ Len(voiceTimers) < 2 /\ handleVoiceInput

\* The microphone button: onPress={handleVoiceInput} disabled={isListening}.
PressVoice == HomeFocused /\ ~isListening /\ handleVoiceInput

\* The callback of setTimeout in handleVoiceInput.
voiceTimerFires(i) ==
    /\ voiceTimers[i].left = 0
    /\ searchQuery' = VoicePhrase
    /\ isListening' = FALSE
    /\ voiceTimers' = RemoveAt(voiceTimers, i)
    /\ UNCHANGED <<appVars, sideVars, loginVars, mapVars, isSearching, progressMessage, showResults,
                   searches, searchesStarted, homeViews>>

VoiceTimeout == \E i \in 1..Len(voiceTimers) : voiceTimerFires(i)

----------------------------------------------------------------------------
(* MapSection: the routing request settles *)

\* Mutant of routeSettles: a settlement is dropped when the results were hidden
\* again or a later request was issued.
routeSettles_Cancellable(r, resp) ==
    /\ r \in inflight
    /\ inflight' = inflight \ {r}
    /\ IF showResults /\ r = requestsIssued
       THEN LET result == fetchRoute(resp) IN
            /\ routeCoordinates' = IF result.setCoordinates
                                   THEN result.coordinates
                                   ELSE routeCoordinates
            /\ mapHTML' = result.html
            /\ errorLog' = IF result.logged THEN errorLog + 1 ELSE errorLog
            /\ mapRequest' = r
       ELSE UNCHANGED <<routeCoordinates, mapHTML, errorLog, mapRequest>>
    /\ homeViews' = HomeScreenRender(isSearching, showResults, mapHTML')
    /\ UNCHANGED <<appVars, sideVars, loginVars, requestsIssued, searchQuery, isSearching,
                   progressMessage, showResults, isListening, searches, voiceTimers,
                   searchesStarted>>

\* The continuation of fetchRoute after await axios.get(...), for request r.
routeSettles(r, resp) ==
    /\ r \in inflight
    /\ inflight' = inflight \ {r}
    /\ LET result == fetchRoute(resp) IN
       /\ routeCoordinates' = IF result.setCoordinates
                              THEN result.coordinates
                              ELSE routeCoordinates
       /\ mapHTML' = result.html
       /\ errorLog' = IF result.logged THEN errorLog + 1 ELSE errorLog
    /\ mapRequest' = r
    /\ homeViews' = HomeScreenRender(isSearching, showResults, mapHTML')
    /\ UNCHANGED <<appVars, sideVars, loginVars, requestsIssued, searchQuery, isSearching,
                   progressMessage, showResults, isListening, searches, voiceTimers,
                   searchesStarted>>

RouteSettles == \E r \in inflight : \E resp \in Responses : routeSettles(r, resp)

----------------------------------------------------------------------------
(* SettingsScreen *)

SettingKeys ==
    {"highSafetyMode", "accessibilityMode", "personalization", "notifications",
     "locationServices", "dataUsage", "darkMode"}

\* The argument of useState.
InitialSettings ==
    [highSafetyMode   |-> TRUE,
     accessibilityMode |-> FALSE,
     personalization  |-> TRUE,
     notifications    |-> TRUE,
     locationServices |-> TRUE,
     dataUsage        |-> FALSE,
     darkMode         |-> FALSE]

\* The titles of the action items, each of which opens a dialog of that title.
ActionItems ==
    {"Edit Profile", "Privacy Settings", "Help & Support", "About UrbanPulse+",
     "Terms & Conditions"}

SettingsFocused == "Settings" \in Tabs /\ focusedTab = "Settings"

\* Mutant of ToggledSettings: the switch can only be turned on.
ToggledSettings_OnlyOn(prev, setting) == [prev EXCEPT ![setting] = TRUE]

\* The updater handleToggle passes to setSettings:
\* prev => ({...prev, [setting]: !prev[setting]})
ToggledSettings(prev, setting) == [prev EXCEPT ![setting] = ~prev[setting]]

\* The body of handleToggle.
handleToggle(setting) ==
    /\ settings' = ToggledSettings(settings, setting)
    /\ UNCHANGED <<appVars, loginVars, homeVars, mapVars, tabVars, newsVars, callVars, solverVars>>

\* A Switch: onValueChange={() => handleToggle(settingKey)}.
ToggleSwitch == SettingsFocused /\ \E setting \in SettingKeys : handleToggle(setting)

\* An action item: onPress={() => Alert.alert(title, ...)}.
PressActionItem ==
    /\ SettingsFocused
    /\ \E title \in ActionItems : alert' = title
    /\ UNCHANGED <<appVars, homeVars, mapVars, sideVars, email, password, isLoading,
                   loginTimers, onLoginCalls, loginVia>>

\* The body of handleLogout: the confirmation dialog.
handleLogout ==
    /\ alert' = "Logout"
    /\ UNCHANGED <<appVars, homeVars, mapVars, sideVars, email, password, isLoading,
                   loginTimers, onLoginCalls, loginVia>>

\* The Logout button: onPress={handleLogout}.
PressLogout == SettingsFocused /\ handleLogout

\* Mutant of ConfirmLogout: the dialog's Logout button ends the session.
ConfirmLogout_EndsSession ==
    /\ alert = "Logout"
    /\ alert' = "Logged out"
    /\ isLoggedIn' = FALSE
    /\ rootScreens' = AppRender(isLoggedIn')
    /\ UNCHANGED <<homeVars, mapVars, sideVars, email, password, isLoading,
                   loginTimers, onLoginCalls, loginVia>>

\* The Logout button of the confirmation dialog: its onPress opens a second
\* dialog.  (The Cancel button has no onPress: it only closes, as DismissAlert.)
ConfirmLogout ==
    /\ alert = "Logout"
    /\ alert' = "Logged out"
    /\ UNCHANGED <<appVars, homeVars, mapVars, sideVars, email, password, isLoading,
                   loginTimers, onLoginCalls, loginVia>>

----------------------------------------------------------------------------
(* TravelNewsScreen *)

\* How many times the user pulls to refresh at most.
MaxRefreshes == 2

RefreshDelay == 2000

\* The ids of the category buttons.
categories == <<"all", "environment", "safety", "traffic", "weather">>

\* The six articles: the fields the code reads to filter and to choose an icon.
InitialNewsData ==
    <<[id |-> 1, category |-> "environment", isBookmarked |-> FALSE],
      [id |-> 2, category |-> "environment", isBookmarked |-> TRUE],
      [id |-> 3, category |-> "weather",     isBookmarked |-> FALSE],
      [id |-> 4, category |-> "safety",      isBookmarked |-> TRUE],
      [id |-> 5, category |-> "traffic",     isBookmarked |-> FALSE],
      [id |-> 6, category |-> "environment", isBookmarked |-> TRUE]>>

NewsFocused == "News" \in Tabs /\ focusedTab = "News"

\* Mutant of filteredNews: 'all' is filtered like any other category.
filteredNews_NoAll(category, data) ==
    SelectSeq(data, LAMBDA item : item.category = category)

\* The list filteredNews for a selected category.
filteredNews(category, data) ==
    IF category = "all"
    THEN data
    ELSE SelectSeq(data, LAMBDA item : item.category = category)

\* renderNewsCard: the article on the card and the icon of its bookmark button.
renderNewsCard(item) ==
    [id   |-> item.id,
     icon |-> IF item.isBookmarked THEN "bookmark" ELSE "bookmark-border"]

\* The cards of a render of TravelNewsScreen.
NewsScreenRender(category, data) ==
    LET shown == filteredNews(category, data) IN
    [i \in 1..Len(shown) |-> renderNewsCard(shown[i])]

\* A category button: onPress={() => setSelectedCategory(category.id)}.
PressCategory ==
    /\ NewsFocused
    /\ \E c \in 1..Len(categories) :
        /\ selectedCategory' = categories[c]
        /\ newsCards' = NewsScreenRender(selectedCategory', newsData)
    /\ UNCHANGED <<appVars, loginVars, homeVars, mapVars, tabVars, settingsVars, callVars, solverVars,
                   refreshing, newsData, refreshTimers, refreshesStarted, bookmarkLogged>>

\* The body of onRefresh.
onRefresh ==
    /\ refreshing' = TRUE
    /\ refreshTimers' = Append(refreshTimers, [left |-> Steps(RefreshDelay)])
    /\ refreshesStarted' = refreshesStarted + 1
    /\ newsCards' = NewsScreenRender(selectedCategory, newsData)
    /\ UNCHANGED <<appVars, loginVars, homeVars, mapVars, tabVars, settingsVars, callVars, solverVars,
                   selectedCategory, newsData, bookmarkLogged>>

\* RefreshControl: onRefresh={onRefresh}.  The model lets the user pull again
\* while the spinner shows, which only adds behaviours.
PullToRefresh == NewsFocused /\ refreshesStarted < MaxRefreshes /\ onRefresh

\* Mutant of refreshTimerFires: the callback flips the flag.
refreshTimerFires_Flips(i) ==
    /\ refreshTimers[i].left = 0
    /\ refreshing' = ~refreshing
    /\ refreshTimers' = RemoveAt(refreshTimers, i)
    /\ newsCards' = NewsScreenRender(selectedCategory, newsData)
    /\ UNCHANGED <<appVars, loginVars, homeVars, mapVars, tabVars, settingsVars, callVars, solverVars,
                   selectedCategory, newsData, refreshesStarted, bookmarkLogged>>

\* The callback of setTimeout in onRefresh.
refreshTimerFires(i) ==
    /\ refreshTimers[i].left = 0
    /\ refreshing' = FALSE
    /\ refreshTimers' = RemoveAt(refreshTimers, i)
    /\ newsCards' = NewsScreenRender(selectedCategory, newsData)
    /\ UNCHANGED <<appVars, loginVars, homeVars, mapVars, tabVars, settingsVars, callVars, solverVars,
                   selectedCategory, newsData, refreshesStarted, bookmarkLogged>>

RefreshTimeout == \E i \in 1..Len(refreshTimers) : refreshTimerFires(i)

\* Mutant of toggleBookmark: the article's isBookmarked is flipped.
toggleBookmark_Flips(id) ==
    /\ bookmarkLogged' = id
    /\ newsData' = [i \in 1..Len(newsData) |->
                      IF newsData[i].id = id
                      THEN [newsData[i] EXCEPT !.isBookmarked = ~@]
                      ELSE newsData[i]]
    /\ newsCards' = NewsScreenRender(selectedCategory, newsData')
    /\ UNCHANGED <<appVars, loginVars, homeVars, mapVars, tabVars, settingsVars, callVars, solverVars,
                   refreshing, selectedCategory, refreshTimers, refreshesStarted>>

\* The body of toggleBookmark: a console.log and nothing else.
toggleBookmark(id) ==
    /\ bookmarkLogged' = id
    /\ UNCHANGED <<appVars, loginVars, homeVars, mapVars, tabVars, settingsVars, callVars, solverVars,
                   refreshing, selectedCategory, newsData, refreshTimers,
                   refreshesStarted, newsCards>>

\* The bookmark button of a card on display: onPress={() => toggleBookmark(item.id)}.
PressBookmark ==
    NewsFocused /\ \E i \in 1..Len(newsCards) : toggleBookmark(newsCards[i].id)

----------------------------------------------------------------------------
(* Tab.Navigator *)

\* The user presses a tab of the tab bar.  A tab screen is mounted, and
\* rendered for the first time, when it first gets the focus.
PressTab ==
    /\ "Main" \in rootScreens
    /\ \E t \in MainTabs :
        /\ t # focusedTab
        /\ focusedTab' = t
        /\ newsCards' = IF t = "News"
                        THEN NewsScreenRender(selectedCategory, newsData)
                        ELSE newsCards
    /\ UNCHANGED <<appVars, loginVars, homeVars, mapVars, settingsVars, callVars, solverVars,
                   refreshing, selectedCategory, newsData, refreshTimers,
                   refreshesStarted, bookmarkLogged>>

----------------------------------------------------------------------------
(* generateMapHTML called on its own *)

\* The longest list of coordinates the call is given.
MaxRouteLen == 3

\* [longitude, latitude] pairs, in units of 0.0001 degree.
RoutePoints ==
    {<<772090, 286139>>, <<769333, 317333>>, <<767800, 307300>>, <<0, 0>>}

\* The lists of at most MaxRouteLen pairs.
RouteInputs == UNION {[1..n -> RoutePoints] : n \in 0..MaxRouteLen}

\* generateMapHTML(callArg)
CallGenerateMapHTML ==
    /\ callResult = <<>>
    /\ callResult' = <<generateMapHTML(Array(callArg))>>
    /\ UNCHANGED <<appVars, loginVars, homeVars, mapVars, tabVars, settingsVars, newsVars,
                   callArg, solverVars>>

----------------------------------------------------------------------------
(* The puzzle solver (part_001), one test case of the while loop *)

\* The largest value of an element.  The program has 200000; the model scales
\* it down, the loops over p and m being the same.
MAX == 10

\* The largest n of a test case.
MaxN == 3

INT_MAX == 2147483647

\* No test case: the solver is not run.
NoTestCase == [a |-> <<>>, b |-> <<>>]

\* The test cases of n elements: a[i] in 1..MAX, and a second array.
TestCases(n) ==
    {[a |-> x, b |-> y] : x \in [1..n -> 1..MAX], y \in [1..n -> {1, 2}]}

RECURSIVE gcd(_, _)
\* std::__gcd
gcd(m, n) == IF n = 0 THEN m ELSE gcd(n, m % n)

\* The double loop that sets ok: some pair i < j has a common factor.
ok(a) == \E i \in 1..Len(a) : \E j \in (i + 1)..Len(a) : gcd(a[i], a[j]) > 1

\* The vector f: how many elements of a have each value.
f(a) == [x \in 0..(MAX + 1) |-> Cardinality({i \in 1..Len(a) : a[i] = x})]

\* k copies of v, as push_back appends them.
Copies(k, v) == [i \in 1..k |-> v]

RECURSIVE c(_, _, _)
\* The vector c for a p, built over the multiples m, m + p, ... of p up to MAX.
c(fa, p, m) ==
    IF m > MAX THEN <<>>
    ELSE (IF fa[m] > 0 THEN Copies(fa[m], 0)
          ELSE IF m - 1 > 0 /\ fa[m - 1] > 0 THEN Copies(fa[m - 1], 1)
          ELSE IF m - 2 > 0 /\ fa[m - 2] > 0 THEN Copies(fa[m - 2], 2)
          ELSE <<>>)
         \o c(fa, p, m + p)

\* What the body of the loop over p offers to min(ans, ...): the two smallest
\* elements of the sorted c, or nothing when c has fewer than two.
Offers(fa, p) ==
    LET sorted == SortSeq(c(fa, p, p), LAMBDA x, y : x < y) IN
    IF Len(sorted) >= 2 THEN {sorted[1] + sorted[2]} ELSE {}

\* ans after the loop over p.
ans(a) ==
    LET all == {INT_MAX} \cup UNION {Offers(f(a), p) : p \in 2..MAX} IN
    CHOOSE v \in all : \A w \in all : v <= w

\* What one test case prints.  The second array is read and not used.
solve(t) == IF ok(t.a) THEN 0 ELSE ans(t.a)

\* One iteration of while(t--).
RunTestCase ==
    /\ testCase # NoTestCase
    /\ printed = <<>>
    /\ printed' = <<solve(testCase)>>
    /\ UNCHANGED <<appVars, loginVars, homeVars, mapVars, tabVars, settingsVars, newsVars,
                   callVars, testCase>>

----------------------------------------------------------------------------
(* The clock *)

\* All pending timers.
TimersPending ==
    loginTimers # <<>> \/ searches # <<>> \/ voiceTimers # <<>> \/ refreshTimers # <<>>

\* No pending timer is due.
NoneDue ==
    /\ SeqAll(loginTimers, 1)
    /\ SeqAll(searches, 1)
    /\ SeqAll(voiceTimers, 1)
    /\ SeqAll(refreshTimers, 1)

\* 500 ms pass.
Advance ==
    /\ TimersPending
    /\ NoneDue
    /\ loginTimers' = Elapse(loginTimers)
    /\ searches' = Elapse(searches)
    /\ voiceTimers' = Elapse(voiceTimers)
    /\ refreshTimers' = Elapse(refreshTimers)
    /\ UNCHANGED <<appVars, mapVars, email, password, isLoading, alert, onLoginCalls,
                   loginVia, searchQuery, isSearching, progressMessage, showResults,
                   isListening, searchesStarted, homeViews, tabVars, settingsVars,
                   callVars, solverVars, refreshing, selectedCategory, newsData, refreshesStarted,
                   newsCards, bookmarkLogged>>

----------------------------------------------------------------------------

\* The tab screens before any of them got an event, and generateMapHTML not
\* yet called on its own.
SideInit ==
    /\ settings = InitialSettings
    /\ refreshing = FALSE
    /\ selectedCategory = "all"
    /\ newsData = InitialNewsData
    /\ refreshTimers = <<>>
    /\ refreshesStarted = 0
    /\ newsCards = <<>>
    /\ bookmarkLogged = 0
    /\ callResult = <<>>
    /\ printed = <<>>

\* The state after construction, but for the argument of the call of
\* generateMapHTML on its own and the input of the puzzle solver.
AppStart ==
    /\ isLoggedIn = FALSE
    /\ rootScreens = AppRender(FALSE)
    /\ email = ""
    /\ password = ""
    /\ isLoading = FALSE
    /\ loginTimers = <<>>
    /\ alert = "none"
    /\ onLoginCalls = 0
    /\ loginVia = "none"
    /\ searchQuery = <<>>
    /\ isSearching = FALSE
    /\ progressMessage = ""
    /\ showResults = FALSE
    /\ isListening = FALSE
    /\ searches = <<>>
    /\ voiceTimers = <<>>
    /\ searchesStarted = 0
    /\ homeViews = {}
    /\ routeCoordinates = Array(<<>>)
    /\ mapHTML = EmptyString
    /\ inflight = {}
    /\ requestsIssued = 0
    /\ mapRequest = 0
    /\ errorLog = 0
    /\ focusedTab = "none"
    /\ SideInit

Init == AppStart /\ callArg = <<>> /\ testCase = NoTestCase

\* The Login screen's events.
LoginNext ==
    \/ setEmail
    \/ setPassword
    \/ PressSignIn
    \/ PressGoogle
    \/ DismissAlert
    \/ LoginTimeout

\* The Home screen's events, the MapSection's included.
HomeNext ==
    \/ setSearchQuery
    \/ PressSearch
    \/ SubmitEditing
    \/ ProgressTick
    \/ SearchCompletes
    \/ PressVoice
    \/ VoiceTimeout
    \/ RouteSettles

Next == LoginNext \/ HomeNext \/ Advance

\* The application from its start.
Spec == Init /\ [][Next]_vars

\* Timers fire when due and time passes: the JavaScript event loop runs every
\* due callback, whatever the user does.
Fairness ==
    /\ WF_vars(Advance)
    /\ WF_vars(LoginTimeout)
    /\ WF_vars(ProgressTick)
    /\ WF_vars(SearchCompletes)
    /\ WF_vars(VoiceTimeout)
    /\ WF_vars(RefreshTimeout)

\* The application up to the moment the Login screen is left.
LoginSpec == Init /\ [][LoginNext \/ Advance]_vars /\ Fairness

\* The state in which the Main screen is mounted: that of Init but for what
\* the login timer's callback set.
HomeInit ==
    /\ isLoggedIn = TRUE
    /\ rootScreens = AppRender(TRUE)
    /\ email = ""
    /\ password = ""
    /\ isLoading = FALSE
    /\ loginTimers = <<>>
    /\ alert = "none"
    /\ onLoginCalls = 1
    /\ loginVia \in {"email", "google"}
    /\ searchQuery = <<>>
    /\ isSearching = FALSE
    /\ progressMessage = ""
    /\ showResults = FALSE
    /\ isListening = FALSE
    /\ searches = <<>>
    /\ voiceTimers = <<>>
    /\ searchesStarted = 0
    /\ homeViews = HomeScreenRender(FALSE, FALSE, EmptyString)
    /\ routeCoordinates = Array(<<>>)
    /\ mapHTML = EmptyString
    /\ inflight = {}
    /\ requestsIssued = 0
    /\ mapRequest = 0
    /\ errorLog = 0
    /\ focusedTab = "Home"
    /\ SideInit
    /\ callArg = <<>>
    /\ testCase = NoTestCase

\* The Home screen from the moment it is mounted.
HomeSpec == HomeInit /\ [][HomeNext \/ Advance]_vars /\ Fairness

\* The Settings screen's events, but for the closing of a dialog.
SettingsNext ==
    \/ ToggleSwitch
    \/ PressActionItem
    \/ PressLogout
    \/ ConfirmLogout

\* The News screen's events.
NewsNext ==
    \/ PressCategory
    \/ PullToRefresh
    \/ RefreshTimeout
    \/ PressBookmark

\* The tabs from the moment Main is mounted, the user looking at the News
\* screen or at a screen without timers.
NewsSpec == HomeInit /\ [][PressTab \/ NewsNext \/ Advance]_vars /\ Fairness

\* The tabs from the moment Main is mounted, the user looking at the Settings
\* screen or at a screen without dialogs.
SettingsSpec == HomeInit /\ [][PressTab \/ SettingsNext \/ DismissAlert]_vars

\* generateMapHTML applied to each list of RouteInputs.
CallInit == AppStart /\ callArg \in RouteInputs /\ testCase = NoTestCase

CallSpec == CallInit /\ [][CallGenerateMapHTML]_vars

\* The puzzle solver run on each test case of 2 to MaxN elements.
SolverInit == AppStart /\ callArg = <<>> /\ \E n \in 2..MaxN : testCase \in TestCases(n)

SolverSpec == SolverInit /\ [][RunTestCase]_vars

\* A moment in which every tab screen is busy.  After the login the user types
\* a query on Home, turns on Dark Mode on Settings, selects 'safety' on News,
\* presses the bookmark button of article 4 and pulls to refresh, goes back to
\* Home and presses Search and the microphone button, all within one clock
\* step, and then looks at any of the three screens.
AllBusy ==
    /\ isLoggedIn = TRUE
    /\ rootScreens = AppRender(TRUE)
    /\ email = ""
    /\ password = ""
    /\ isLoading = FALSE
    /\ loginTimers = <<>>
    /\ alert = "none"
    /\ onLoginCalls = 1
    /\ loginVia = "google"
    /\ searchQuery = <<" ", "M", "\n">>
    /\ isSearching = TRUE
    /\ progressMessage = ""
    /\ showResults = FALSE
    /\ isListening = TRUE
    /\ searches = <<[messageIndex |-> 0, phase |-> "interval",
                     left |-> Steps(ProgressInterval)]>>
    /\ voiceTimers = <<[left |-> Steps(VoiceDelay)]>>
    /\ searchesStarted = 1
    /\ homeViews = HomeScreenRender(TRUE, FALSE, EmptyString)
    /\ routeCoordinates = Array(<<>>)
    /\ mapHTML = EmptyString
    /\ inflight = {}
    /\ requestsIssued = 0
    /\ mapRequest = 0
    /\ errorLog = 0
    /\ focusedTab \in {"Home", "Settings", "News"}
    /\ settings = [InitialSettings EXCEPT !.darkMode = TRUE]
    /\ refreshing = TRUE
    /\ selectedCategory = "safety"
    /\ newsData = InitialNewsData
    /\ refreshTimers = <<[left |-> Steps(RefreshDelay)]>>
    /\ refreshesStarted = 1
    /\ newsCards = NewsScreenRender("safety", InitialNewsData)
    /\ bookmarkLogged = 4
    /\ callArg = <<>>
    /\ callResult = <<>>
    /\ testCase = NoTestCase
    /\ printed = <<>>

\* All screens together: the application from its start with the user staying
\* on Home, and from a moment in which every tab screen is busy with the user
\* staying on the tab then on display, the timers and the routing request of
\* the other screens running meanwhile.
CrossNext == LoginNext \/ HomeNext \/ SettingsNext \/ NewsNext \/ Advance

CrossSpec == (Init \/ AllBusy) /\ [][CrossNext]_vars

----------------------------------------------------------------------------
(* Properties *)

\* Some pending login timer was started by handleEmailLogin.
EmailTimerPending == \E i \in 1..Len(loginTimers) : loginTimers[i].via = "email"

\* C1: pressing Sign In with email 'testuser@example.com' and password
\* 'Test@1234' sets isLoading and starts a 1000 ms timer (2 clock steps); when a
\* login timer fires isLoading becomes false and onLogin is invoked, which sets
\* isLoggedIn; and a pending email-login timer leads to isLoggedIn.
C1_EmailSignInSucceeds ==
    /\ [][(PressSignIn /\ email = "testuser@example.com" /\ password = "Test@1234")
            => /\ isLoading'
               /\ loginTimers' = Append(loginTimers, [via |-> "email", left |-> 2])]_vars
    /\ [][(loginTimers' # loginTimers /\ Len(loginTimers') < Len(loginTimers))
            => ~isLoading' /\ onLoginCalls' = onLoginCalls + 1 /\ isLoggedIn']_vars
    /\ (EmailTimerPending ~> isLoggedIn)

C1_Witness == isLoggedIn /\ loginVia = "email" /\ onLoginCalls = 1

\* C2: pressing Sign In with any other (email, password) pair shows the
\* 'Invalid credentials' alert, starts no timer, does not invoke onLogin and
\* leaves email, password, isLoading and isLoggedIn unchanged.
C2_EmailSignInFails ==
    [][(PressSignIn /\ ~(email = "testuser@example.com" /\ password = "Test@1234"))
        => /\ alert' = "InvalidCredentials"
           /\ UNCHANGED <<loginTimers, onLoginCalls, email, password, isLoading,
                          isLoggedIn>>]_vars

C2_Witness ==
    /\ alert = "InvalidCredentials"
    /\ email = " testuser@example.com"
    /\ password = "Test@1234"
    /\ ~isLoggedIn

\* C3 as stated: the app is past login only through an email sign-in with the
\* exact credentials.
C3_OnlyByCredentials == isLoggedIn => loginVia = "email"

\* C3 amended: an email-login timer is started only by Sign In pressed with the
\* exact credentials, and isLoggedIn becomes true only when the timer of an
\* email sign-in or of the Google button fires.
C3_OnlyByCredentialsOrGoogle ==
    /\ [][(Len(loginTimers') > Len(loginTimers)
            /\ loginTimers'[Len(loginTimers')].via = "email")
            => email = "testuser@example.com" /\ password = "Test@1234"]_vars
    /\ [][(~isLoggedIn /\ isLoggedIn')
            => \E i \in 1..Len(loginTimers) :
                  /\ loginTimers[i].left = 0
                  /\ loginTimers[i].via \in {"email", "google"}
                  /\ loginVia' = loginTimers[i].via]_vars

\* The Google button led past login.
C3_Witness == isLoggedIn /\ loginVia = "google" /\ onLoginCalls = 1

\* C4: isLoggedIn is false until onLogin is invoked, and exactly one root
\* screen is mounted: Login iff isLoggedIn is false, Main with the four tabs
\* Home, Profile, Settings, News iff it is true.
C4_RootNavigation ==
    /\ onLoginCalls = 0 => ~isLoggedIn
    /\ Cardinality(rootScreens) = 1
    /\ "Login" \in rootScreens <=> ~isLoggedIn
    /\ "Main" \in rootScreens <=> isLoggedIn
    /\ Tabs = (IF isLoggedIn THEN {"Home", "Profile", "Settings", "News"} ELSE {})

C4_Witness == isLoggedIn /\ rootScreens = {"Main"} /\ "News" \in Tabs

\* C5: a search that runs alone starts with an interval of 1500 ms (3 clock
\* steps; 1000 ms are 2); each tick
\* sets progressMessage to the next of the six strings, in list order; the
\* sixth tick clears the interval and starts a 1000 ms timeout; isSearching and
\* showResults stay (true, false) until that timeout fires and sets them to
\* (false, true).
C5_ProgressSequence ==
    /\ [][(searches = <<>> /\ searches' # <<>>)
            => /\ searches' = <<[messageIndex |-> 0, phase |-> "interval", left |-> 3]>>
               /\ isSearching' /\ ~showResults']_vars
    /\ [][(Len(searches) = 1 /\ Len(searches') = 1
            /\ searches'[1].messageIndex # searches[1].messageIndex)
            => /\ searches[1].phase = "interval" /\ searches[1].left = 0
               /\ searches'[1].messageIndex = searches[1].messageIndex + 1
               /\ progressMessage' =
                    <<"Fetching data...", "Understanding context...",
                      "Analyzing traffic patterns...", "Optimizing route...",
                      "Calculating environmental factors...",
                      "Finalizing recommendations...">>[searches'[1].messageIndex]
               /\ IF searches'[1].messageIndex = 6
                  THEN searches'[1].phase = "timeout" /\ searches'[1].left = 2
                  ELSE searches'[1].phase = "interval" /\ searches'[1].left = 3]_vars
    /\ [][(Len(searches) = 1 /\ Len(searches') = 1)
            => UNCHANGED <<isSearching, showResults>>]_vars
    /\ [][(Len(searches) = 1 /\ searches' = <<>>)
            => /\ searches[1] = [messageIndex |-> 6, phase |-> "timeout", left |-> 0]
               /\ ~isSearching' /\ showResults']_vars

C5_Witness ==
    /\ searchesStarted = 1
    /\ searches = <<>>
    /\ progressMessage = "Finalizing recommendations..."
    /\ ~isSearching
    /\ showResults

\* C6: whenever a search is running, a state is eventually reached where no
\* progress interval and no completion timeout is pending, isSearching is false
\* and showResults is true.
C6_SearchEnds == (searches # <<>>) ~> (searches = <<>> /\ ~isSearching /\ showResults)

\* Two searches overlapped and both ended: showResults rose only once.
C6_Witness ==
    /\ searchesStarted = 2
    /\ requestsIssued = 1
    /\ searches = <<>>
    /\ ~isSearching
    /\ showResults

\* C7: on the Home screen the map section and the four info cards are on
\* display iff showResults is true, the 'Travel Updates' list iff showResults
\* is false, and the progress overlay iff isSearching is true.
C7_ResultViews ==
    HomeMounted =>
        /\ (homeViews \cap {"MapWebView", "MapPlaceholder"} # {}) <=> showResults
        /\ \A card \in {"Air Quality Index", "Noise Level", "Greenery Index",
                        "Travel Time"} : card \in homeViews <=> showResults
        /\ "Travel Updates" \in homeViews <=> ~showResults
        /\ "ProgressOverlay" \in homeViews <=> isSearching

C7_Witness ==
    /\ showResults
    /\ homeViews = {"MapWebView", "Air Quality Index", "Noise Level", "Greenery Index",
                    "Travel Time"}

\* The map document with both city markers, no polyline and no fitBounds.
MapWithoutRoute ==
    [delhiMarker |-> <<286139, 772090>>, mandiMarker |-> <<317333, 769333>>,
     polyline |-> <<>>, fitBounds |-> FALSE]

\* C8: when a routing request fails (network error, or a response without
\* routes[0].geometry.coordinates), the failure is logged, mapHTML becomes the
\* map without a route, and no other state of MapSection is set.
C8_RouteFailure ==
    [][\A r \in inflight :
         \A resp \in {x \in Responses :
                        x.kind # "geometry" \/ x.coordinates.tag = "undefined"} :
            routeSettles(r, resp)
                => /\ errorLog' = errorLog + 1
                   /\ mapHTML' = MapWithoutRoute
                   /\ UNCHANGED routeCoordinates]_vars

\* C9: a step issues a routing request iff it changes showResults from false
\* to true, and then exactly one, whether or not earlier requests are pending.
C9_OneRequestPerReveal ==
    [][/\ requestsIssued' =
            requestsIssued + (IF ~showResults /\ showResults' THEN 1 ELSE 0)
       /\ inflight' \ inflight =
            (IF ~showResults /\ showResults' THEN {requestsIssued + 1} ELSE {})]_vars

\* Two requests are pending at once.
C9_Witness == Cardinality(inflight) = 2 /\ requestsIssued = 2 /\ showResults

\* C10: the settlement of a routing request is applied to mapHTML whatever
\* showResults is and whatever requests were issued after it, and
\* routeCoordinates is set to the coordinates of a response that has them.
C10_NoCancellation ==
    [][\A r \in inflight :
         r \notin inflight'
            => /\ mapRequest' = r
               /\ \E resp \in Responses :
                    /\ mapHTML' = (IF resp.kind = "geometry"
                                      /\ resp.coordinates.tag = "array"
                                      /\ Len(resp.coordinates.items) > 0
                                   THEN [MapWithoutRoute EXCEPT
                                           !.polyline = SwapPairs(resp.coordinates.items),
                                           !.fitBounds = TRUE]
                                   ELSE MapWithoutRoute)
                    /\ routeCoordinates' = (IF resp.kind = "geometry"
                                            THEN resp.coordinates
                                            ELSE routeCoordinates)]_vars

\* Both requests settled, the older one last: the map is the older one's.
C10_Witness ==
    /\ requestsIssued = 2
    /\ inflight = {}
    /\ mapRequest = 1
    /\ mapHTML.fitBounds

\* C11: no caching of the map.  Whenever the map section shows a map, that map
\* was built from the response to the request issued for the reveal on display:
\* the request issued last, requests being issued at reveals only.  Otherwise
\* the section shows the placeholder.
C11_NoCachedMap ==
    showResults =>
        \/ "MapPlaceholder" \in homeViews
        \/ "MapWebView" \in homeViews /\ mapRequest = requestsIssued

\* C12: no timeout on the routing request.  mapHTML changes only in a step in
\* which a pending request settles; and as long as no request has settled, the
\* results on display show the 'Loading map...' placeholder, however much time
\* passes.
C12_NoRequestTimeout ==
    /\ [][mapHTML' # mapHTML => \E r \in inflight : r \notin inflight']_vars
    /\ [](showResults /\ mapRequest = 0 =>
            mapHTML = EmptyString /\ "MapPlaceholder" \in homeViews)

\* The first reveal, its request still pending and every timer fired.
C12_Witness ==
    /\ showResults
    /\ requestsIssued = 1
    /\ inflight = {1}
    /\ searches = <<>>
    /\ "MapPlaceholder" \in homeViews

\* C13: generateMapHTML(routeCoords).  For a non-empty list of
\* [longitude, latitude] pairs the polyline has as many points as the list, the
\* i-th of them the i-th pair with its two numbers swapped, and the fitBounds
\* call is present; for the empty list there is neither polyline nor fitBounds;
\* in both cases the Delhi and Mandi markers are present.
C13_GenerateMapHTML ==
    callResult # <<>> =>
        LET html == callResult[1] IN
        /\ html.delhiMarker = <<286139, 772090>>
        /\ html.mandiMarker = <<317333, 769333>>
        /\ IF Len(callArg) = 0
           THEN html.polyline = <<>> /\ ~html.fitBounds
           ELSE /\ Len(html.polyline) = Len(callArg)
                /\ \A i \in 1..Len(callArg) :
                     /\ html.polyline[i][1] = callArg[i][2]
                     /\ html.polyline[i][2] = callArg[i][1]
                /\ html.fitBounds

\* The call returned for a list of three pairs that are not all equal.
C13_Witness ==
    /\ callResult # <<>>
    /\ Len(callArg) = 3
    /\ callArg[1] # callArg[3]
    /\ callResult[1].polyline[3] = <<317333, 769333>>

\* The ids of the articles on the cards on display, in their order.
ShownIds == [i \in 1..Len(newsCards) |-> newsCards[i].id]

\* C14: the news category filter.  selectedCategory is 'all' initially.  Once
\* the News screen is on display, for 'all' the list shows the six articles;
\* for another category it shows exactly the articles of that category, in
\* their original relative order (that of their ids).  A step that changes
\* selectedCategory changes, besides the list on display, nothing else.
C14_CategoryFilter ==
    /\ selectedCategory = "all"
    /\ [](focusedTab = "News" \/ newsCards # <<>> =>
            IF selectedCategory = "all"
            THEN ShownIds = <<1, 2, 3, 4, 5, 6>>
            ELSE /\ \A i \in 1..Len(newsCards) :
                      \E a \in 1..6 :
                          /\ newsData[a].id = ShownIds[i]
                          /\ newsData[a].category = selectedCategory
                 /\ \A a \in 1..6 :
                      newsData[a].category = selectedCategory =>
                          \E i \in 1..Len(newsCards) : ShownIds[i] = newsData[a].id
                 /\ \A i, j \in 1..Len(newsCards) : i < j => ShownIds[i] < ShownIds[j])
    /\ [][selectedCategory' # selectedCategory =>
            /\ selectedCategory' \in {"all", "environment", "safety", "traffic", "weather"}
            /\ UNCHANGED <<refreshing, newsData, refreshTimers, refreshesStarted,
                           bookmarkLogged, appVars, loginVars, homeVars, mapVars,
                           tabVars, settingsVars>>]_vars

\* The three environment articles on display, in their original order.
C14_Witness == selectedCategory = "environment" /\ ShownIds = <<1, 2, 6>>

\* C16: the news articles are constant mock data.  In every state the six
\* articles hold the fields they were built with, and every card on display
\* shows the icon of its article's original isBookmarked value (true for the
\* articles 2, 4 and 6), whatever was pressed, selected or refreshed.
C16_ArticlesConstant ==
    /\ newsData = InitialNewsData
    /\ \A a \in 1..6 : newsData[a].isBookmarked = (newsData[a].id \in {2, 4, 6})
    /\ \A i \in 1..Len(newsCards) :
         newsCards[i].icon =
             IF newsCards[i].id \in {2, 4, 6} THEN "bookmark" ELSE "bookmark-border"

\* The bookmark button of article 1 was pressed last, after a refresh and a
\* category selection, and its card still shows the empty icon.
C16_Witness ==
    /\ bookmarkLogged = 1
    /\ refreshesStarted > 0
    /\ selectedCategory = "environment"
    /\ newsCards[1] = [id |-> 1, icon |-> "bookmark-border"]

\* C17: pull-to-refresh is a simulated delay.  A call of onRefresh sets
\* refreshing to true and starts a timer of 2000 ms (4 clock steps); a timer
\* fires only when its time is up and then sets refreshing to false; neither
\* step changes the articles, the list on display or selectedCategory.  When
\* no timer is pending refreshing is false, and whatever refreshes were
\* started, one during another included, all timers eventually have fired
\* with refreshing false.
C17_SimulatedRefresh ==
    /\ [][refreshesStarted' # refreshesStarted =>
            /\ refreshing'
            /\ refreshTimers' = Append(refreshTimers, [left |-> 4])
            /\ UNCHANGED <<newsData, newsCards, selectedCategory>>]_vars
    /\ [][Len(refreshTimers') < Len(refreshTimers) =>
            /\ \E i \in 1..Len(refreshTimers) : refreshTimers[i].left = 0
            /\ ~refreshing'
            /\ UNCHANGED <<newsData, newsCards, selectedCategory>>]_vars
    /\ [][refreshing' # refreshing => Len(refreshTimers') # Len(refreshTimers)]_vars
    /\ [](refreshTimers = <<>> => ~refreshing)
    /\ (refreshTimers # <<>>) ~> (refreshTimers = <<>> /\ ~refreshing)

\* A refresh was started while another was pending, and the first timer has
\* fired: the second is still pending.
C17_Witness ==
    /\ refreshesStarted = 2
    /\ Len(refreshTimers) = 1
    /\ refreshTimers[1].left < 4
    /\ ~refreshing

\* C18: simulated voice input.  handleVoiceInput runs only while isListening
\* is false, sets it to true and starts a timer of 2000 ms (4 clock steps);
\* the timer fires only when its time is up and then sets searchQuery to the
\* fixed phrase, whatever it held, and isListening to false.  Neither step
\* starts a search or touches the search or the map, and at most one voice
\* timer is pending: exactly while isListening is true.
C18_VoiceInput ==
    /\ [][Len(voiceTimers') > Len(voiceTimers) =>
            /\ ~isListening
            /\ isListening'
            /\ voiceTimers' = <<[left |-> 4]>>
            /\ UNCHANGED <<searchQuery, isSearching, showResults, progressMessage,
                           searches, searchesStarted, mapVars>>]_vars
    /\ [][Len(voiceTimers') < Len(voiceTimers) =>
            /\ voiceTimers[1].left = 0
            /\ Len(searchQuery') = 48
            /\ searchQuery' = VoicePhrase
            /\ ~isListening'
            /\ UNCHANGED <<isSearching, showResults, progressMessage, searches,
                           searchesStarted, mapVars>>]_vars
    /\ [](Len(voiceTimers) <= 1 /\ (isListening <=> voiceTimers # <<>>))

\* The voice timer has fired and no search was ever started.
C18_Witness ==
    /\ searchQuery = VoicePhrase
    /\ ~isListening
    /\ voiceTimers = <<>>
    /\ searchesStarted = 0
    /\ isLoggedIn

\* C19: whenever a progress interval or a completion timeout of a search is
\* pending, isSearching is true and showResults is false, and it is the only
\* one pending: no second search starts while one is running.
C19_OneSearchAtATime ==
    searches # <<>> => isSearching /\ ~showResults /\ Len(searches) = 1

\* C20: isSearching and showResults are never both true.  A step that starts
\* a search leaves them (true, false), a step in which a search completes
\* leaves them (false, true), and no other step changes either.
C20_SearchingXorResults ==
    /\ [](~(isSearching /\ showResults))
    /\ [][searchesStarted' # searchesStarted => isSearching' /\ ~showResults']_vars
    /\ [][Len(searches') < Len(searches) => ~isSearching' /\ showResults']_vars
    /\ [][isSearching' # isSearching \/ showResults' # showResults =>
            searchesStarted' # searchesStarted \/ Len(searches') < Len(searches)]_vars

\* Two searches overlapped and the first has completed: the results are on
\* display while the second search is still running.
C20_Witness ==
    /\ searchesStarted = 2
    /\ Len(searches) = 1
    /\ ~isSearching
    /\ showResults

\* What each screen keeps in useState, with its pending timers and requests.
LoginState    == <<email, password, isLoading, loginTimers>>
HomeState     == <<searchQuery, isSearching, progressMessage, showResults, isListening,
                   searches, voiceTimers, routeCoordinates, mapHTML, inflight>>
SettingsState == <<settings>>
NewsState     == <<refreshing, selectedCategory, newsData, refreshTimers>>

C21_OneLoginTimer ==
    /\ Len(loginTimers) <= 1
    /\ isLoading <=> loginTimers # <<>>
    /\ onLoginCalls <= 1
    /\ isLoggedIn <=> onLoginCalls = 1

\* A Google login timer is due while the buttons are disabled.
C21_Witness ==
    /\ isLoading
    /\ loginTimers = <<[via |-> "google", left |-> 0]>>
    /\ onLoginCalls = 0

\* C22: confirming the Logout dialog of Settings logs the user out.  Once the
\* 'Logged out' dialog shows, isLoggedIn is false and the root shows the Login
\* screen.
C22_LogoutLogsOut ==
    alert = "Logged out" => ~isLoggedIn /\ rootScreens = {"Login"}

\* C23: handleSearch with an empty or whitespace-only searchQuery is a no-op.
\* In a step taken while the query is blank no search and no timer starts,
\* isSearching does not become true, results on display are not hidden, and
\* progressMessage changes only by the tick of a search started earlier.
C23_BlankSearchNoOp ==
    [][(\A i \in 1..Len(searchQuery) : searchQuery[i] \in {" ", "\t", "\n"}) =>
        /\ searchesStarted' = searchesStarted
        /\ Len(searches') <= Len(searches)
        /\ isSearching' => isSearching
        /\ showResults => showResults'
        /\ progressMessage' # progressMessage => searches' # searches]_vars

\* A whitespace-only query in the field while the results of a previous
\* search are on display and nothing is pending.
C23_Witness ==
    /\ searchQuery = <<" ", "\t">>
    /\ showResults
    /\ searchesStarted = 1
    /\ searches = <<>>
    /\ "Air Quality Index" \in homeViews

\* C24: while the progress overlay is visible (isSearching true) the message
\* on display is one of the six progress strings, and while a single search
\* is running it is a string of that search: before the search's first tick
\* it is not the final string, which only a previous search can have left.
C24_ProgressMessageOfSearch ==
    isSearching =>
        /\ progressMessage \in
             {"Fetching data...", "Understanding context...",
              "Analyzing traffic patterns...", "Optimizing route...",
              "Calculating environmental factors...", "Finalizing recommendations..."}
        /\ Len(searches) = 1 /\ searches[1].messageIndex = 0 =>
               progressMessage # "Finalizing recommendations..."

\* C25: the Settings switches.  Initially highSafetyMode, personalization,
\* notifications and locationServices are true and accessibilityMode,
\* dataUsage and darkMode false.  A step that changes settings negates the
\* flag of exactly one of the seven keys and keeps the other six and the key
\* set.  From every reachable settings, toggling a key twice gives the same
\* settings back, and toggling two keys gives the same result in either order.
C25_ToggleAlgebra ==
    /\ /\ settings.highSafetyMode /\ settings.personalization
       /\ settings.notifications /\ settings.locationServices
       /\ ~settings.accessibilityMode /\ ~settings.dataUsage /\ ~settings.darkMode
    /\ [](DOMAIN settings =
            {"highSafetyMode", "accessibilityMode", "personalization",
             "notifications", "locationServices", "dataUsage", "darkMode"})
    /\ [][settings' # settings =>
            \E k \in DOMAIN settings :
                /\ settings'[k] = ~settings[k]
                /\ \A j \in DOMAIN settings \ {k} : settings'[j] = settings[j]]_vars
    /\ [](\A k, j \in DOMAIN settings :
            /\ ToggledSettings(settings, k)[k] = ~settings[k]
            /\ ToggledSettings(ToggledSettings(settings, k), k) = settings
            /\ ToggledSettings(ToggledSettings(settings, k), j)
                 = ToggledSettings(ToggledSettings(settings, j), k))

\* Dark Mode was turned on and High Safety Mode off, the rest as at the start.
C25_Witness ==
    /\ focusedTab = "Settings"
    /\ settings.darkMode
    /\ ~settings.highSafetyMode
    /\ settings.personalization
    /\ ~settings.dataUsage

\* C27: routeCoordinates and mapHTML stay consistent.  Once a request has
\* settled, mapHTML contains a route polyline iff routeCoordinates is a
\* non-empty list.
C27_RouteConsistent ==
    mapRequest # 0 =>
        (mapHTML.polyline # <<>>
            <=> routeCoordinates.tag = "array" /\ routeCoordinates.items # <<>>)

\* x and y have a common factor greater than 1.
SharedFactor(x, y) == \E q \in 2..x : x % q = 0 /\ y % q = 0

\* The least total number of +1 increments after which some pair of elements
\* has a common factor.  Two increments always suffice (two elements made
\* even), so no element needs more than two.
MinIncrements(arr) ==
    LET totals == {d[1] + d[2] : d \in
                     {e \in (0..2) \X (0..2) :
                        \E i \in 1..Len(arr) : \E j \in (i + 1)..Len(arr) :
                            \/ SharedFactor(arr[i] + e[1], arr[j] + e[2])
                            \/ SharedFactor(arr[i] + e[2], arr[j] + e[1])}}
    IN  CHOOSE v \in totals : \A w \in totals : v <= w

\* C26: the puzzle solver, per test case with values in 1..MAX.  It prints 0
\* iff some pair i < j has gcd(a[i], a[j]) > 1, and otherwise the minimum
\* total number of +1 increments needed so that some pair of elements has
\* gcd > 1, whatever the second array holds.
C26_SolverMinimum ==
    printed # <<>> =>
        /\ printed[1] = 0 <=>
             \E i \in 1..Len(testCase.a) : \E j \in (i + 1)..Len(testCase.a) :
                 SharedFactor(testCase.a[i], testCase.a[j])
        /\ printed[1] = MinIncrements(testCase.a)

====
